---- MODULE Spec2Model ----
(***************************************************************************)
(* State cores of flowers-nextjs-table: the persisted state cell           *)
(* (useInternalState), the sort controller (useTableSort), the row         *)
(* selection controller (useRowSelection) and their wiring in Table.       *)
(*                                                                         *)
(* React is modelled as far as the hooks depend on it: a handler runs in a *)
(* turn against the values of the last render; setState(updater) queues    *)
(* the updater; the re-render that ends the turn runs the queued updaters  *)
(* in order, each on the result of the one before it.                      *)
(***************************************************************************)
EXTENDS Integers, Sequences, FiniteSets, TLC

VARIABLES
  hook,                 \* the hook, component or utility under test
  hasWindow,            \* typeof window !== "undefined"
  persistenceKey,       \* the persistenceKey prop: {} (undefined) or {K}
  localStorage,         \* window.localStorage: key -> {} (null) or {text}
  controlledSortState,  \* the sortState prop: {} (undefined) or {value}
  onSortChange,         \* whether the onSortChange prop is supplied
  internalSortState,    \* the useState cell behind useTableSort
  sortQueue,            \* updaters queued by setState, not yet rendered
  sortCalls,            \* handleSort calls made in the current turn
  sortCb,               \* arguments onSortChange received in the current turn
  controlledSelection,  \* the rowSelection prop: {} (undefined) or {value}
  onSelectionChange,    \* whether the onRowSelectionChange prop is supplied
  internalSelection,    \* the useState cell behind useRowSelection
  selQueue,             \* updaters queued by setState, not yet rendered
  selCb,                \* arguments onSelectionChange received in the turn
  cellState,            \* a useInternalState cell used on its own
  cellQueue,            \* updaters queued by its setter, not yet rendered
  getItemThrows,        \* whether localStorage.getItem throws
  setItemThrows,        \* whether localStorage.setItem throws
  storageCalls,         \* the <<method, key>> calls localStorage has received
  thrown,               \* whether an exception has reached the caller
  data,                 \* the data prop of the table: its rows
  searchValue,          \* the searchValue prop, as characters
  disableInternalProcessing,
  paginationMode,       \* "auto", "manual" or "off"
  itemsPerPage,
  controlledPage,       \* the page prop: {} (undefined) or {number}
  internalPage,         \* the useState cell behind the page number
  processedData,        \* the processedData memo of the last render
  enableRowSelection,   \* the enableRowSelection prop: a boolean or a function
  page,                 \* Pagination: the page prop
  totalPages,           \* Pagination: the totalPages prop
  showPageNumbers,      \* Pagination: the showPageNumbers prop
  items,                \* ChipDisplay: the items prop
  maxVisibleItems,      \* ChipDisplay: the maxVisibleItems prop
  isExpanded,           \* ChipDisplay: its useState cell
  mergeTarget,          \* mergeDeep: the object handed in as target
  mergeSource,          \* mergeDeep: the value handed in as source
  mergeOutput           \* mergeDeep: what the last call returned

tableProps == <<data, searchValue, disableInternalProcessing, paginationMode,
                itemsPerPage, controlledPage, enableRowSelection>>
paginationVars == <<page, totalPages, showPageNumbers>>
chipVars == <<items, maxVisibleItems, isExpanded>>
mergeVars == <<mergeTarget, mergeSource, mergeOutput>>
tableVars == <<internalPage, processedData>>
envVars  == <<hook, hasWindow, persistenceKey, getItemThrows, setItemThrows,
              tableProps, paginationVars, chipVars, mergeVars>>
sortVars == <<controlledSortState, onSortChange, internalSortState,
              sortQueue, sortCalls, sortCb>>
selVars  == <<controlledSelection, onSelectionChange, internalSelection,
              selQueue, selCb>>
cellVars == <<cellState, cellQueue>>
vars     == <<envVars, localStorage, sortVars, selVars, cellVars,
              storageCalls, thrown, tableVars>>

----------------------------------------------------------------------------
(* Bounds *)

MaxCallsPerTurn == 2  \* change requests made before the next render
MaxIdsLen == 2        \* length of the id list handed to a selection call
MaxVal == 2           \* the lone state cell holds a number in 0 .. MaxVal
MaxRows == 3          \* rows of a generated dataset
MaxPages == 10        \* totalPages of a Pagination on its own
MaxItems == 8         \* items of a ChipDisplay, and its limit

----------------------------------------------------------------------------
(* Values *)

NULL == "<null>"                     \* the JavaScript value null
FieldKeys == {"name", "age"}         \* accessor keys of real data fields
ReservedKeys == {"select", "actions"}
Keys == FieldKeys \cup ReservedKeys
Directions == {"asc", "desc"}

\* An optional value (undefined / null, or a value) is the empty set or a
\* singleton.
Get(opt) == CHOOSE v \in opt : TRUE

\* Row identifiers, as the property names the selection object stores them
\* under (a number id 1 and a string id "1" are the same property), in
\* ascending numeric order.
IdSeq == <<"1", "2">>
Ids == {IdSeq[i] : i \in 1..Len(IdSeq)}
IdLists == UNION {[1..n -> Ids] : n \in 0..MaxIdsLen}

\* The numbers the lone state cell holds, and the updater functions its
\* caller passes.
Vals == 0..MaxVal
increment == [v \in Vals |-> (v + 1) % (MaxVal + 1)]
double == [v \in Vals |-> (2 * v) % (MaxVal + 1)]

Last(s) == s[Len(s)]

----------------------------------------------------------------------------
(* JSON text, as a sequence of tokens *)

Quote(s) == "\"" \o s \o "\""
PropertyNames == {"key", "direction"} \cup Ids
StringValues == Keys \cup Directions
IsQuoted(tok, universe) == \E s \in universe : Quote(s) = tok
Unquote(tok, universe) == CHOOSE s \in universe : Quote(s) = tok

\* The members of an object whose properties are listed in names, in order.
RECURSIVE Members(_, _)
Members(names, valueText) ==
  IF names = <<>> THEN <<>>
  ELSE <<Quote(Head(names)), ":", valueText[Head(names)]>>
       \o (IF Len(names) > 1 THEN <<",">> ELSE <<>>)
       \o Members(Tail(names), valueText)

\* JSON.stringify of a number ("number"), a sort state ("sort") or a
\* selection map ("selection"). Own properties are written in insertion
\* order, integer-like names first in ascending order.
JSON_stringify(kind, value) ==
  IF kind = "number" THEN <<ToString(value)>>
  ELSE IF kind = "sort"
  THEN <<"{">>
       \o Members(<<"key", "direction">>,
                  [n \in {"key", "direction"} |->
                     IF value[n] = NULL THEN "null" ELSE Quote(value[n])])
       \o <<"}">>
  ELSE <<"{">>
       \o Members(SelectSeq(IdSeq, LAMBDA id : id \in DOMAIN value),
                  [id \in DOMAIN value |->
                     IF value[id] THEN "true" ELSE "false"])
       \o <<"}">>

IsNumber(tok) == \E v \in Vals : ToString(v) = tok

ParseScalar(tok) ==
  CASE tok = "null" -> [ok |-> TRUE, value |-> NULL]
    [] IsNumber(tok) ->
         [ok |-> TRUE, value |-> CHOOSE v \in Vals : ToString(v) = tok]
    [] tok = "true" -> [ok |-> TRUE, value |-> TRUE]
    [] tok = "false" -> [ok |-> TRUE, value |-> FALSE]
    [] IsQuoted(tok, StringValues) ->
         [ok |-> TRUE, value |-> Unquote(tok, StringValues)]
    [] OTHER -> [ok |-> FALSE, value |-> NULL]

\* A value that is not an object, where an object is expected: it has no
\* properties of its own and is carried as its JSON text.
Primitive(tok) == [primitive |-> tok]

\* JSON.parse of a scalar or of an object of scalar members; ok = FALSE
\* where it throws. kind names the type the caller holds the result as.
JSON_parse(kind, text) ==
  IF Len(text) = 1
  THEN (IF kind = "number" \/ ~ParseScalar(text[1]).ok
        THEN ParseScalar(text[1])
        ELSE [ok |-> TRUE, value |-> Primitive(text[1])])
  ELSE IF Len(text) < 2 \/ Head(text) # "{" \/ Last(text) # "}"
  THEN [ok |-> FALSE, value |-> NULL]
  ELSE
    LET m == SubSeq(text, 2, Len(text) - 1)
        n == (Len(m) + 1) \div 4
        wellFormed ==
          \/ Len(m) = 0
          \/ /\ Len(m) % 4 = 3
             /\ \A i \in 0..(n - 1) :
                  /\ IsQuoted(m[4 * i + 1], PropertyNames)
                  /\ m[4 * i + 2] = ":"
                  /\ ParseScalar(m[4 * i + 3]).ok
                  /\ i < n - 1 => m[4 * i + 4] = ","
        name(i) == Unquote(m[4 * i + 1], PropertyNames)
        names == {name(i) : i \in 0..(n - 1)}
        \* a repeated name keeps its last value
        at(p) == CHOOSE i \in 0..(n - 1) :
                   /\ name(i) = p
                   /\ \A j \in 0..(n - 1) : name(j) = p => j <= i
    IN IF ~wellFormed THEN [ok |-> FALSE, value |-> NULL]
       ELSE [ok |-> TRUE,
             value |-> [p \in names |-> ParseScalar(m[4 * at(p) + 3]).value]]

----------------------------------------------------------------------------
(* useInternalState *)

safeParseJSON(kind, value, fallback) ==
  LET r == JSON_parse(kind, value) IN IF r.ok THEN r.value ELSE fallback

getInitialStateIgnoresStore(kind, initialState, key, store) == initialState

getInitialStateReadUncaught(kind, initialState, key, store) ==
  IF ~hasWindow \/ key = {} THEN initialState
  ELSE LET item == store[Get(key)]
       IN IF item # {} /\ Get(item) # <<>>
          THEN safeParseJSON(kind, Get(item), initialState)
          ELSE initialState

\* The useState initializer: the stored value when there is one, else the
\* caller's initial state.
getInitialState(kind, initialState, key, store) ==
  IF ~hasWindow \/ key = {} THEN initialState
  ELSE IF getItemThrows THEN initialState
  ELSE LET item == store[Get(key)]
       IN IF item # {} /\ Get(item) # <<>>
          THEN safeParseJSON(kind, Get(item), initialState)
          ELSE initialState

\* The argument of the setter: a literal value or a function of the
\* previous state, whichever field is not empty.
Literal(v) == [function |-> {}, literal |-> {v}]
Function(f) == [function |-> {f}, literal |-> {}]

\* updateState(value): queues the updater below, unless there is no window.
updateState(queue, update) ==
  IF ~hasWindow THEN queue ELSE Append(queue, update)

updaterWritesPrevious(kind, key, update, prevState, store) ==
  LET newState == IF update.function # {}
                  THEN Get(update.function)[prevState]
                  ELSE Get(update.literal)
  IN [state |-> newState,
      store |-> IF key # {} /\ ~setItemThrows
                THEN [store EXCEPT
                        ![Get(key)] = {JSON_stringify(kind, prevState)}]
                ELSE store]

updaterRollsBack(kind, key, update, prevState, store) ==
  LET newState == IF update.function # {}
                  THEN Get(update.function)[prevState]
                  ELSE Get(update.literal)
  IN [state |-> IF key # {} /\ setItemThrows THEN prevState ELSE newState,
      store |-> IF key # {} /\ ~setItemThrows
                THEN [store EXCEPT
                        ![Get(key)] = {JSON_stringify(kind, newState)}]
                ELSE store]

\* The updater handed to setState: resolves the new state against prevState
\* and writes it to the store.
updater(kind, key, update, prevState, store) ==
  LET newState == IF update.function # {}
                  THEN Get(update.function)[prevState]
                  ELSE Get(update.literal)
  IN [state |-> newState,
      store |-> IF key # {} /\ ~setItemThrows
                THEN [store EXCEPT
                        ![Get(key)] = {JSON_stringify(kind, newState)}]
                ELSE store]

processUpdateQueueStale(kind, key, queue, state, store) ==
  IF queue = <<>> THEN [state |-> state, store |-> store]
  ELSE updater(kind, key, Last(queue), state, store)

\* The render after a turn runs the queued updaters in the order queued.
RECURSIVE processUpdateQueue(_, _, _, _, _)
processUpdateQueue(kind, key, queue, state, store) ==
  IF queue = <<>> THEN [state |-> state, store |-> store]
  ELSE LET r == updater(kind, key, Head(queue), state, store)
       IN processUpdateQueue(kind, key, Tail(queue), r.state, r.store)

----------------------------------------------------------------------------
(* useTableSort *)

defaultSortState == [key |-> NULL, direction |-> "asc"]

sortStorageKeyNoSuffix == persistenceKey

sortStorageKey ==
  IF persistenceKey # {} THEN {Get(persistenceKey) \o "-sort"} ELSE {}

\* Boolean(controlledSortState && onSortChange): a sort state object is
\* truthy whatever it holds.
isControlledSortValueOnly == controlledSortState # {}

isControlledSort == controlledSortState # {} /\ onSortChange

sortState ==
  IF isControlledSort
  THEN (IF controlledSortState # {} THEN Get(controlledSortState)
        ELSE internalSortState)
  ELSE internalSortState

isReservedKeyActionsOnly(key) == key = "actions"

isReservedKey(key) == key = "actions" \/ key = "select"

\* object.name: reading a property of null throws a TypeError; a property
\* the value does not have reads as undefined ({}).
ReadThrows(object) == object = Primitive("null")

Prop(object, name) ==
  IF name \in DOMAIN object /\ name # "primitive" THEN {object[name]} ELSE {}

nextDirectionNeverBack(current, key) ==
  IF Prop(current, "key") = {key} THEN "desc" ELSE "asc"

nextDirection(current, key) ==
  IF Prop(current, "key") = {key} /\ Prop(current, "direction") = {"asc"}
  THEN "desc" ELSE "asc"

\* A turn takes a bounded number of change requests before it renders.
TurnOpen ==
  Len(sortCalls) + Len(selQueue) + Len(selCb) + Len(cellQueue)
    < MaxCallsPerTurn

handleSort(key) ==
  /\ TurnOpen
  /\ sortCalls' = Append(sortCalls, key)
  /\ IF isReservedKey(key)
     THEN UNCHANGED <<sortQueue, sortCb, thrown>>
     ELSE IF ReadThrows(sortState)
     THEN thrown' = TRUE /\ UNCHANGED <<sortQueue, sortCb>>
     ELSE LET next == [key |-> key,
                       direction |-> nextDirection(sortState, key)]
          IN /\ IF isControlledSort
                THEN /\ sortCb' = (IF onSortChange THEN Append(sortCb, next)
                                   ELSE sortCb)
                     /\ UNCHANGED sortQueue
                ELSE /\ sortQueue' = updateState(sortQueue, Literal(next))
                     /\ UNCHANGED sortCb
             /\ UNCHANGED thrown
  /\ UNCHANGED <<envVars, localStorage, controlledSortState, onSortChange,
                 internalSortState, selVars, cellVars, storageCalls,
                 tableVars>>

----------------------------------------------------------------------------
(* useRowSelection *)

selectionStorageKey ==
  IF persistenceKey # {} THEN {Get(persistenceKey) \o "-selection"} ELSE {}

\* Boolean(controlledSelection && onSelectionChange): an object is truthy
\* even when empty.
isControlledSelection == controlledSelection # {} /\ onSelectionChange

selectedRowIds ==
  IF isControlledSelection
  THEN (IF controlledSelection # {} THEN Get(controlledSelection) ELSE <<>>)
  ELSE internalSelection

\* Boolean(selection[id]): a missing entry is undefined, which is falsy.
Truthy(selection, id) == id \in DOMAIN selection /\ selection[id]

\* { ...selection, [id]: flag }
SetEntry(selection, id, flag) ==
  [p \in DOMAIN selection \cup {id} |->
     IF p = id THEN flag ELSE selection[p]]

\* ids.every((id) => Boolean(selection[id]))
RECURSIVE every(_, _)
every(selection, ids) ==
  IF ids = <<>> THEN TRUE
  ELSE Truthy(selection, Head(ids)) /\ every(selection, Tail(ids))

\* for (const id of ids) newSelection[id] = shouldSelect
RECURSIVE assignAll(_, _, _)
assignAll(selection, ids, shouldSelect) ==
  IF ids = <<>> THEN selection
  ELSE assignAll(SetEntry(selection, Head(ids), shouldSelect),
                 Tail(ids), shouldSelect)

toggleRowSelectionAlwaysTrue(selection, id) ==
  SetEntry(selection, id, TRUE)

toggleRowSelection(selection, id) ==
  SetEntry(selection, id, ~Truthy(selection, id))

toggleAllRowsSelectionOr(selection, ids, value) ==
  LET isAllCurrentlySelected == Len(ids) > 0 /\ every(selection, ids)
      shouldSelect == (value # {} /\ Get(value)) \/ ~isAllCurrentlySelected
  IN assignAll(selection, ids, shouldSelect)

toggleAllRowsSelection(selection, ids, value) ==
  LET isAllCurrentlySelected == Len(ids) > 0 /\ every(selection, ids)
      shouldSelect == IF value # {} THEN Get(value)
                      ELSE ~isAllCurrentlySelected
  IN assignAll(selection, ids, shouldSelect)

\* The tail shared by toggleRow and toggleAllRows: the callback in
\* controlled mode, the internal setter otherwise.
commitSelection(newSelection) ==
  IF isControlledSelection /\ onSelectionChange
  THEN /\ selCb' = Append(selCb, newSelection)
       /\ UNCHANGED selQueue
  ELSE /\ selQueue' = updateState(selQueue, Literal(newSelection))
       /\ UNCHANGED selCb

toggleRow(id) ==
  /\ TurnOpen
  /\ commitSelection(toggleRowSelection(selectedRowIds, id))
  /\ UNCHANGED <<envVars, localStorage, controlledSelection,
                 onSelectionChange, internalSelection, sortVars, cellVars,
                 storageCalls, thrown, tableVars>>

toggleAllRows(ids, value) ==
  /\ TurnOpen
  /\ commitSelection(toggleAllRowsSelection(selectedRowIds, ids, value))
  /\ UNCHANGED <<envVars, localStorage, controlledSelection,
                 onSelectionChange, internalSelection, sortVars, cellVars,
                 storageCalls, thrown, tableVars>>

isAllSelectedVacuous(selection, ids) == every(selection, ids)

isAllSelected(selection, ids) == Len(ids) > 0 /\ every(selection, ids)

isSomeSelected(selection, ids) ==
  IF Len(ids) = 0 THEN FALSE
  ELSE LET selectedCount ==
             Len(SelectSeq(ids, LAMBDA id : Truthy(selection, id)))
       IN selectedCount > 0 /\ selectedCount < Len(ids)

----------------------------------------------------------------------------
(* A component that uses useInternalState directly *)

\* The component passes its persistenceKey on as it is.
cellStorageKey == persistenceKey

\* The updates its caller hands to the setter.
CellUpdates ==
  {Literal(v) : v \in Vals}
    \cup {Function(f) : f \in {increment, double}}

setCell(update) ==
  /\ TurnOpen
  /\ cellQueue' = updateState(cellQueue, update)
  /\ UNCHANGED <<envVars, localStorage, sortVars, selVars, cellState,
                 storageCalls, thrown, tableVars>>

----------------------------------------------------------------------------
(* Table: cell values and the processing of rows *)

\* The value of a cell: a string (its characters), a number, null or
\* undefined.
Str(chars) == [type |-> "string", chars |-> chars]
Bool(b) == [type |-> "boolean", b |-> b]
Num(n) == [type |-> "number", n |-> n]
Null == [type |-> "null"]
Undefined == [type |-> "undefined"]

\* item[accessorKey]: a property the row does not have reads as undefined.
Cell(item, accessorKey) ==
  IF accessorKey \in DOMAIN item THEN item[accessorKey] ELSE Undefined

\* value ?? fallback
Coalesce(value, fallback) ==
  IF value.type \in {"null", "undefined"} THEN fallback ELSE value

Digits == <<"0", "1", "2", "3", "4", "5", "6", "7", "8", "9">>

\* String(value), for the numbers 0 .. 9.
String(value) ==
  CASE value.type = "string" -> value.chars
    [] value.type = "number" -> <<Digits[value.n + 1]>>
    [] value.type = "null" -> <<"n", "u", "l", "l">>
    [] OTHER -> <<"u", "n", "d", "e", "f", "i", "n", "e", "d">>

\* The UTF-16 code unit of a character, for the characters in use.
codeUnit(c) ==
  CASE c = "A" -> 65 [] c = "B" -> 66
    [] c = "a" -> 97 [] c = "b" -> 98 [] c = "d" -> 100 [] c = "e" -> 101
    [] c = "f" -> 102 [] c = "i" -> 105 [] c = "l" -> 108
    [] c = "n" -> 110 [] c = "u" -> 117 [] c = "z" -> 122
    [] OTHER -> 47 + (CHOOSE i \in 1..10 : Digits[i] = c)

toLowerCaseKeepsCase(chars) == chars

\* chars.toLowerCase(): the capitals in use go to their small letters.
toLowerCase(chars) ==
  [i \in 1..Len(chars) |->
     CASE chars[i] = "A" -> "a"
       [] chars[i] = "B" -> "b"
       [] OTHER -> chars[i]]

\* chars.includes(search)
includes(chars, search) ==
  \E i \in 1..(Len(chars) - Len(search) + 1) :
    SubSeq(chars, i, i + Len(search) - 1) = search

searchFilterEveryColumn(result, accessorKeys, search) ==
  LET keep(item) ==
        \E i \in 1..Len(accessorKeys) :
          includes(toLowerCase(String(Coalesce(Cell(item, accessorKeys[i]),
                                               Str(<<>>)))),
                   toLowerCase(search))
  IN SelectSeq(result, keep)

\* The search stage: result.filter((item) => columns.some(...)).
searchFilter(result, accessorKeys, search) ==
  LET lowercasedSearch == toLowerCase(search)
      keep(item) ==
        \E i \in 1..Len(accessorKeys) :
          /\ ~(accessorKeys[i] = "actions" \/ accessorKeys[i] = "select")
          /\ includes(toLowerCase(String(Coalesce(Cell(item, accessorKeys[i]),
                                                  Str(<<>>)))),
                      lowercasedSearch)
  IN SelectSeq(result, keep)

\* a < b on strings: the first differing code unit decides, a proper prefix
\* is smaller.
RECURSIVE stringLess(_, _)
stringLess(a, b) ==
  IF b = <<>> THEN FALSE
  ELSE IF a = <<>> THEN TRUE
  ELSE IF codeUnit(Head(a)) # codeUnit(Head(b))
  THEN codeUnit(Head(a)) < codeUnit(Head(b))
  ELSE stringLess(Tail(a), Tail(b))

\* ToNumber(value): {} stands for NaN. A string is a number when it is empty
\* or a digit.
ToNumber(value) ==
  CASE value.type = "number" -> {value.n}
    [] value.type = "null" -> {0}
    [] value.type = "undefined" -> {}
    [] OTHER ->
         IF value.chars = <<>> THEN {0}
         ELSE IF Len(value.chars) = 1
                 /\ \E i \in 1..10 : Digits[i] = value.chars[1]
         THEN {(CHOOSE i \in 1..10 : Digits[i] = value.chars[1]) - 1}
         ELSE {}

\* valA < valB: two strings compare as strings, anything else as numbers,
\* and a comparison with NaN is false.
Less(valA, valB) ==
  IF valA.type = "string" /\ valB.type = "string"
  THEN stringLess(valA.chars, valB.chars)
  ELSE /\ ToNumber(valA) # {} /\ ToNumber(valB) # {}
       /\ Get(ToNumber(valA)) < Get(ToNumber(valB))

compareIgnoresDirection(a, b, key, direction) ==
  LET valA == Cell(a, key)
      valB == Cell(b, key)
  IN IF Less(valA, valB) THEN -1
     ELSE IF Less(valB, valA) THEN 1
     ELSE 0

\* The comparator handed to result.sort.
compare(a, b, key, direction) ==
  LET valA == Cell(a, key)
      valB == Cell(b, key)
  IN IF Less(valA, valB) THEN (IF direction = "asc" THEN -1 ELSE 1)
     ELSE IF Less(valB, valA) THEN (IF direction = "asc" THEN 1 ELSE -1)
     ELSE 0

\* Whether the comparator orders n rows consistently, c[i][j] being its
\* result on rows i and j: being equal under it is transitive and goes
\* along with being smaller.
isConsistent(c, n) ==
  \A i \in 1..n, j \in 1..n, k \in 1..n :
    /\ (c[i][j] = 0 /\ c[j][k] = 0) => c[i][k] = 0
    /\ (c[i][j] < 0 /\ c[j][k] < 0) => c[i][k] < 0
    /\ (c[i][j] < 0 /\ c[j][k] = 0) => c[i][k] < 0
    /\ (c[i][j] = 0 /\ c[j][k] < 0) => c[i][k] < 0

\* The results of the comparator on every pair of rows, as a sequence of
\* sequences.
comparisons(result, key, direction) ==
  [i \in 1..Len(result) |->
     [j \in 1..Len(result) |->
        compare(result[i], result[j], key, direction)] \o <<>>] \o <<>>

\* result.sort(comparator): the stable sort when the comparator is
\* consistent; otherwise the order is implementation-defined, and any
\* arrangement of the rows may come out.
sort(result, key, direction) ==
  LET n == Len(result)
      before(c, i) == {j \in 1..n : c[j][i] < 0 \/ (c[j][i] = 0 /\ j < i)}
      sorted(c) ==
        IF isConsistent(c, n)
        THEN {[k \in 1..n |->
                 result[CHOOSE i \in 1..n : Cardinality(before(c, i)) = k - 1]]}
        ELSE {[k \in 1..n |-> result[f[k]]] : f \in Permutations(1..n)}
  IN UNION {sorted(c) : c \in {comparisons(result, key, direction)}}

processDataWhateverTheFlag(rows, search, state, accessorKeys, disabled) ==
  LET result == IF search # <<>>
                THEN searchFilter(rows, accessorKeys, search)
                ELSE rows
      key == Prop(state, "key")
      direction == IF Prop(state, "direction") = {"asc"}
                   THEN "asc" ELSE "desc"
  IN IF key # {} /\ key # {NULL}
     THEN sort(result, Get(key), direction)
     ELSE {result}

\* The processedData memo: the rows as given when processing is disabled,
\* else a copy of them filtered by the search value and sorted by the sort
\* state. The set holds every array the computation may give.
processData(rows, search, state, accessorKeys, disabled) ==
  IF disabled THEN {rows}
  ELSE LET result == IF search # <<>>
                     THEN searchFilter(rows, accessorKeys, search)
                     ELSE rows
           key == Prop(state, "key")
           direction == IF Prop(state, "direction") = {"asc"}
                        THEN "asc" ELSE "desc"
       IN IF key # {} /\ key # {NULL}
          THEN sort(result, Get(key), direction)
          ELSE {result}

----------------------------------------------------------------------------
(* Table: what it renders *)

\* The accessor keys of the columns, in order; the name and age columns
\* have enableSorting.
columns == <<"select", "name", "age", "actions">>
sortableColumns == {"name", "age"}

isControlledPagination == paginationMode = "manual"

isPaginationEnabledAtThreshold ==
  /\ paginationMode # "off"
  /\ \/ isControlledPagination
     \/ paginationMode = "auto" /\ Len(processedData) >= itemsPerPage

isPaginationEnabled ==
  /\ paginationMode # "off"
  /\ \/ isControlledPagination
     \/ paginationMode = "auto" /\ Len(processedData) > itemsPerPage

currentPage ==
  IF isControlledPagination
  THEN (IF controlledPage # {} THEN Get(controlledPage) ELSE 1)
  ELSE internalPage

totalDataPagesRoundedDown == Len(processedData) \div itemsPerPage

\* Math.ceil(processedData.length / itemsPerPage)
totalDataPages == (Len(processedData) + itemsPerPage - 1) \div itemsPerPage

\* The totalPages prop of the table, which the tests leave out.
controlledTotalPages == {}

\* The totalPages the table hands to its Pagination.
totalPagesOfTable ==
  IF isControlledPagination
  THEN (IF controlledTotalPages # {} THEN Get(controlledTotalPages) ELSE 1)
  ELSE totalDataPages

\* The pagination control is on the screen: the table renders a Pagination
\* and the Pagination finds its props valid.
paginationRendered ==
  /\ isPaginationEnabled
  /\ totalPagesOfTable > 1
  /\ currentPage >= 1 /\ currentPage <= totalPagesOfTable

\* array.slice(start, end) with 0 <= start <= end
slice(array, start, end) ==
  LET from == IF start < Len(array) THEN start ELSE Len(array)
      to == IF end < Len(array) THEN end ELSE Len(array)
  IN SubSeq(array, from + 1, to)

\* The rows of the current page when the table pages them itself.
paginatedData ==
  IF isPaginationEnabled /\ ~isControlledPagination
  THEN slice(processedData, (currentPage - 1) * itemsPerPage,
             currentPage * itemsPerPage)
  ELSE processedData

\* The table itself is rendered, rather than a skeleton or the no-content
\* notice.
tableShown ==
  /\ Len(data) > 0
  /\ ~(Len(paginatedData) = 0 /\ searchValue # <<>>)

\* The rows the render computes, once the hooks have their state.
render ==
  IF hook = "Table"
  THEN processData(data, searchValue, sortState, columns,
                   disableInternalProcessing)
  ELSE {<<>>}

----------------------------------------------------------------------------
(* Rendering *)

\* A turn is under way: a handler has been called since the last render.
turnPending ==
  sortCalls # <<>> \/ selQueue # <<>> \/ selCb # <<>> \/ cellQueue # <<>>

\* The re-render that ends a turn: each state cell runs its queued updaters
\* and the handlers are rebuilt over the new values. A controlling host
\* either stores the value its callback last received or keeps its own.
Render ==
  /\ turnPending
  /\ LET c == processUpdateQueue("number", cellStorageKey, cellQueue,
                                 cellState, localStorage)
         s == processUpdateQueue("sort", sortStorageKey, sortQueue,
                                 internalSortState, c.store)
         r == processUpdateQueue("selection", selectionStorageKey, selQueue,
                                 internalSelection, s.store)
     IN /\ cellState' = c.state
        /\ internalSortState' = s.state
        /\ internalSelection' = r.state
        /\ localStorage' = r.store
  /\ controlledSortState' \in
       {controlledSortState}
         \cup (IF sortCb # <<>> THEN {{Last(sortCb)}} ELSE {})
  /\ controlledSelection' \in
       {controlledSelection}
         \cup (IF selCb # <<>> THEN {{Last(selCb)}} ELSE {})
  /\ sortQueue' = <<>> /\ sortCalls' = <<>> /\ sortCb' = <<>>
  /\ selQueue' = <<>> /\ selCb' = <<>>
  /\ cellQueue' = <<>>
  /\ storageCalls' =
       storageCalls
         \cup {<<"setItem", k>> :
                 k \in (IF cellQueue # <<>> THEN cellStorageKey ELSE {})
                        \cup (IF sortQueue # <<>> THEN sortStorageKey ELSE {})
                        \cup (IF selQueue # <<>> THEN selectionStorageKey
                              ELSE {})}
  /\ UNCHANGED <<envVars, onSortChange, onSelectionChange, internalPage>>
  /\ IF hook = "Table" /\ ReadThrows(sortState')
     THEN thrown' = TRUE /\ UNCHANGED processedData
     ELSE processedData' \in render' /\ UNCHANGED thrown

\* The storage keys of the state cells the rendered component has.
usedStorageKeys ==
  (IF hook = "useInternalState" THEN cellStorageKey ELSE {})
    \cup (IF hook \in {"useTableSort", "Table"} THEN sortStorageKey ELSE {})
    \cup (IF hook \in {"useRowSelection", "Table"}
          THEN selectionStorageKey ELSE {})

\* The first value of a state cell: its initializer runs if the component
\* has the cell.
useState(kind, initialState, key, store) ==
  IF key \subseteq usedStorageKeys
  THEN getInitialState(kind, initialState, key, store)
  ELSE initialState

\* The reads the initializers make on a mount.
getItemCalls ==
  IF hasWindow THEN {<<"getItem", k>> : k \in usedStorageKeys} ELSE {}

\* The component is unmounted and mounted again with the same props: its
\* hooks are constructed afresh against the same store.
Remount ==
  /\ ~turnPending
  /\ cellState' = useState("number", 0, cellStorageKey, localStorage)
  /\ internalSortState' =
       useState("sort", defaultSortState, sortStorageKey, localStorage)
  /\ internalSelection' =
       useState("selection", <<>>, selectionStorageKey, localStorage)
  /\ storageCalls' = storageCalls \cup getItemCalls
  /\ internalPage' = 1
  /\ UNCHANGED <<envVars, localStorage, controlledSortState, onSortChange,
                 sortQueue, sortCalls, sortCb, controlledSelection,
                 onSelectionChange, selQueue, selCb, cellQueue>>
  /\ IF hook = "Table" /\ ReadThrows(sortState')
     THEN thrown' = TRUE /\ UNCHANGED processedData
     ELSE processedData' \in render' /\ UNCHANGED thrown

----------------------------------------------------------------------------
(* The hooks, each rendered on its own *)

StoreKeys == {"K", "K-sort", "K-selection"}

emptyStorage == [k \in StoreKeys |-> {}]

\* The props and state of a Pagination, of a ChipDisplay and the arguments
\* of mergeDeep while something else is under test.
NoPagination == page = 1 /\ totalPages = 1 /\ showPageNumbers = FALSE
NoChipDisplay == items = <<>> /\ maxVisibleItems = 3 /\ isExpanded = FALSE
NoMergeDeep ==
  mergeTarget = Undefined /\ mergeSource = Undefined /\ mergeOutput = Undefined

\* The state after the first render of a component that uses the hooks in
\* hooks, in an environment drawn from windows (whether there is a window),
\* storages (the content of localStorage) and failures (whether getItem and
\* setItem throw).
MountedIn(hooks, windows, storages, failures) ==
  /\ hook \in hooks
  /\ hasWindow \in windows
  /\ persistenceKey \in {{}, {"K"}}
  /\ localStorage \in storages
  /\ getItemThrows \in failures
  /\ setItemThrows \in failures
  /\ controlledSortState \in {{}, {defaultSortState}}
  /\ onSortChange \in BOOLEAN
  /\ hook # "useTableSort" =>
       controlledSortState = {} /\ onSortChange = FALSE
  /\ internalSortState =
       useState("sort", defaultSortState, sortStorageKey, localStorage)
  /\ sortQueue = <<>> /\ sortCalls = <<>> /\ sortCb = <<>>
  /\ controlledSelection \in {{}, {<<>>}}
  /\ onSelectionChange \in BOOLEAN
  /\ hook \notin {"useRowSelection", "Table"} =>
       controlledSelection = {} /\ onSelectionChange = FALSE
  /\ internalSelection =
       useState("selection", <<>>, selectionStorageKey, localStorage)
  /\ selQueue = <<>> /\ selCb = <<>>
  /\ cellState = useState("number", 0, cellStorageKey, localStorage)
  /\ cellQueue = <<>>
  /\ storageCalls = getItemCalls
  /\ thrown = FALSE
  /\ IF hook = "Pagination" THEN TRUE ELSE NoPagination
  /\ IF hook = "ChipDisplay" THEN TRUE ELSE NoChipDisplay
  /\ IF hook = "mergeDeep" THEN TRUE ELSE NoMergeDeep

\* The first render of a table whose props are drawn from the sets given.
TableRenderedWith(datasets, searches, disables, modes, sizes, selectables) ==
  /\ data \in datasets
  /\ searchValue \in searches
  /\ disableInternalProcessing \in disables
  /\ paginationMode \in modes
  /\ itemsPerPage \in sizes
  /\ controlledPage = {}
  /\ internalPage = 1
  /\ processedData \in render
  /\ enableRowSelection \in selectables

\* The same with enableRowSelection={true}.
TableRendered(datasets, searches, disables, modes, sizes) ==
  TableRenderedWith(datasets, searches, disables, modes, sizes,
                    {Bool(TRUE)})

\* A hook rendered on its own: there is no table.
NoTable == TableRendered({<<>>}, {<<>>}, {FALSE}, {"auto"}, {20})

\* The hooks in a browser whose localStorage is empty and works.
Mounted(hooks) ==
  MountedIn(hooks, {TRUE}, {emptyStorage}, {FALSE}) /\ NoTable

Init == Mounted({"useInternalState", "useTableSort", "useRowSelection"})

Next ==
  \/ \E update \in CellUpdates : hook = "useInternalState" /\ setCell(update)
  \/ \E key \in Keys : hook = "useTableSort" /\ handleSort(key)
  \/ \E id \in Ids : hook = "useRowSelection" /\ toggleRow(id)
  \/ \E ids \in IdLists, value \in {{}, {TRUE}, {FALSE}} :
       hook = "useRowSelection" /\ toggleAllRows(ids, value)
  \/ Render
  \/ Remount

Spec == Init /\ [][Next]_vars

----------------------------------------------------------------------------
(* The hooks over a localStorage that holds records and may fail *)

\* Texts found under a key when the component mounts: none, the empty
\* string, text that is not JSON, JSON of another type than the state's,
\* and a record the hook wrote earlier.
seededTexts(key) ==
  {<<>>, <<"invalid-json">>, <<"{">>}
    \cup (CASE key = "K" -> {<<"1">>}
            [] key = "K-sort" ->
                 {<<"null">>, <<"1">>, <<"{", "}">>,
                  <<"{", Quote("key"), ":", Quote("name"), "}">>,
                  JSON_stringify("sort",
                                 [key |-> "age", direction |-> "desc"])}
            [] OTHER -> {})

seededStorages ==
  {emptyStorage}
    \cup {[emptyStorage EXCEPT ![k] = {t}] :
            k \in StoreKeys, t \in UNION {seededTexts(j) : j \in StoreKeys}}

\* The test reconfigures the localStorage mock between turns.
mockImplementation(getItem, setItem) ==
  /\ ~turnPending
  /\ getItemThrows' = getItem
  /\ setItemThrows' = setItem
  /\ <<getItemThrows', setItemThrows'>> # <<getItemThrows, setItemThrows>>
  /\ UNCHANGED <<hook, hasWindow, persistenceKey, tableProps, paginationVars,
                 chipVars, mergeVars, localStorage, sortVars, selVars,
                 cellVars, storageCalls, thrown, tableVars>>

InitStorage ==
  /\ MountedIn({"useInternalState", "useTableSort"},
               {TRUE}, seededStorages, BOOLEAN)
  /\ \A k \in StoreKeys :
       localStorage[k] # {} =>
         /\ k \in usedStorageKeys
         /\ Get(localStorage[k]) \in seededTexts(k)
  /\ hook = "useTableSort" => controlledSortState = {}
  /\ NoTable

NextStorage ==
  \/ \E update \in CellUpdates : hook = "useInternalState" /\ setCell(update)
  \/ \E key \in Keys : hook = "useTableSort" /\ handleSort(key)
  \/ Render
  \/ Remount
  \/ \E getItem \in BOOLEAN, setItem \in BOOLEAN :
       mockImplementation(getItem, setItem)

SpecStorage == InitStorage /\ [][NextStorage]_vars

----------------------------------------------------------------------------
(* The hooks rendered with or without a window *)

InitServer ==
  /\ MountedIn({"useInternalState", "useTableSort", "useRowSelection"},
               BOOLEAN, {emptyStorage}, {FALSE})
  /\ NoTable

SpecServer == InitServer /\ [][Next]_vars

----------------------------------------------------------------------------
(* Table: the select column *)

\* getRowId = (row) => row.id, used as a property name: a row without an id
\* gives undefined, which names the property "undefined".
getRowId(row) == IF "id" \in DOMAIN row THEN row.id ELSE "undefined"

\* enableRowSelection as a function is the set of rows it accepts.
RowFilter(rows) == [type |-> "function", rows |-> rows]

\* typeof enableRowSelection === "function" ? enableRowSelection(item) : true
canSelect(row) ==
  IF enableRowSelection.type = "function"
  THEN row \in enableRowSelection.rows
  ELSE TRUE

visibleRowIds == [i \in 1..Len(paginatedData) |-> getRowId(paginatedData[i])]

selectableRowIdsEveryRow == visibleRowIds

\* paginatedData.find((r) => getRowId(r) === id): the first such row
find(id) ==
  LET found == {i \in 1..Len(paginatedData) : getRowId(paginatedData[i]) = id}
  IN IF found = {} THEN {}
     ELSE {paginatedData[CHOOSE i \in found : \A j \in found : i <= j]}

selectableRowIds ==
  IF enableRowSelection.type = "function"
  THEN SelectSeq(visibleRowIds,
                 LAMBDA id : find(id) # {} /\ canSelect(Get(find(id))))
  ELSE visibleRowIds

\* onChange of the checkbox in row i.
ClickRowCheckbox(i) ==
  /\ hook = "Table"
  /\ enableRowSelection # Bool(FALSE)
  /\ canSelect(paginatedData[i])
  /\ toggleRow(getRowId(paginatedData[i]))

\* onChange of the checkbox in the header of the select column.
ClickHeaderCheckbox ==
  /\ hook = "Table"
  /\ enableRowSelection # Bool(FALSE)
  /\ toggleAllRows(selectableRowIds, {})

\* onClick of the header button of a column.
ClickColumnHeader(key) ==
  /\ hook = "Table"
  /\ tableShown
  /\ key \in sortableColumns
  /\ handleSort(key)

\* onPageChange of the pagination control, which is there when pagination
\* is enabled and the page lies within the pages: the page number is set
\* and the table renders again.
handlePageChange(newPage) ==
  /\ hook = "Table"
  /\ tableShown
  /\ isPaginationEnabled /\ ~isControlledPagination
  /\ totalDataPages > 1 /\ currentPage \in 1..totalDataPages
  /\ newPage \in 1..totalDataPages
  /\ ~turnPending
  /\ internalPage' = newPage
  /\ UNCHANGED <<envVars, localStorage, sortVars, selVars, cellVars,
                 storageCalls, thrown, processedData>>

\* The rows of the table's tests, with the ids of the selection tests.
mockData ==
  <<[id |-> "1", name |-> Str(<<"b">>), age |-> Num(2)],
    [id |-> "2", name |-> Str(<<"A", "b">>), age |-> Num(1)]>>

InitTable ==
  /\ MountedIn({"Table"}, {TRUE}, {emptyStorage}, {FALSE})
  /\ TableRendered({mockData}, {<<>>}, {FALSE}, {"auto"}, {1, 20})

NextTable ==
  \/ \E i \in 1..Len(paginatedData) : tableShown /\ ClickRowCheckbox(i)
  \/ tableShown /\ ClickHeaderCheckbox
  \/ \E key \in Keys : ClickColumnHeader(key)
  \/ \E newPage \in 1..Len(data) : handlePageChange(newPage)
  \/ Render
  \/ Remount

SpecTable == InitTable /\ [][NextTable]_vars

----------------------------------------------------------------------------
(* Table: searching and sorting *)

\* Rows with a string, a number, null and a missing property under the
\* sortable columns, and text under the actions column.
RowPool ==
  {[name |-> Str(<<"A", "b">>), age |-> Num(1), actions |-> Str(<<"z">>)],
   [name |-> Str(<<"b">>), age |-> Num(2)],
   [name |-> Null, age |-> Null],
   [age |-> Num(2)]}

\* The rows get the ids "1", "2", ... in the order given.
withIds(rows) ==
  [i \in 1..Len(rows) |-> [id |-> Digits[i + 1]] @@ rows[i]]

DataSets ==
  {withIds(rows) : rows \in UNION {[1..n -> RowPool] : n \in 0..MaxRows}}

SearchValues ==
  {<<>>, <<"a">>, <<"A">>, <<"A", "B">>, <<"1">>, <<"z">>, <<"n">>}

\* The host renders the table again with another searchValue.
rerender(search) ==
  /\ hook = "Table"
  /\ ~turnPending
  /\ searchValue' = search
  /\ processedData' \in processData(data, search, sortState, columns,
                                    disableInternalProcessing)
  /\ UNCHANGED <<hook, hasWindow, persistenceKey, getItemThrows,
                 setItemThrows, data, disableInternalProcessing,
                 paginationMode, itemsPerPage, controlledPage,
                 enableRowSelection, paginationVars, chipVars, mergeVars,
                 localStorage, sortVars, selVars, cellVars, storageCalls,
                 thrown, internalPage>>

InitProcess ==
  /\ MountedIn({"Table"}, {TRUE}, {emptyStorage}, {FALSE})
  /\ persistenceKey = {}
  /\ controlledSelection = {} /\ ~onSelectionChange
  /\ TableRendered(DataSets, SearchValues, BOOLEAN, {"auto"}, {20})

NextProcess ==
  \/ \E key \in Keys : ClickColumnHeader(key)
  \/ \E search \in SearchValues : rerender(search)
  \/ Render

SpecProcess == InitProcess /\ [][NextProcess]_vars

----------------------------------------------------------------------------
(* Table: paging *)

\* Datasets of MaxRows rows that all have a name.
PagedDataSets ==
  {withIds(rows) :
     rows \in [1..MaxRows -> {row \in RowPool : "name" \in DOMAIN row
                                                /\ row.name.type = "string"}]}

PageSizes == {1, 2, 20}

InitPages ==
  /\ MountedIn({"Table"}, {TRUE}, {emptyStorage}, {FALSE})
  /\ persistenceKey = {}
  /\ controlledSelection = {} /\ ~onSelectionChange
  /\ TableRendered(PagedDataSets, {<<>>}, BOOLEAN, {"auto", "manual", "off"},
                   PageSizes)

NextPages ==
  \/ \E newPage \in 1..MaxRows : handlePageChange(newPage)
  \/ \E key \in Keys : ClickColumnHeader(key)
  \/ Render
  \/ Remount

SpecPages == InitPages /\ [][NextPages]_vars

----------------------------------------------------------------------------
(* Table: paging while the rows change *)

\* Datasets of up to MaxRows rows that all have a name.
NamedDataSets ==
  {rows \in DataSets :
     \A i \in 1..Len(rows) : Cell(rows[i], "name").type = "string"}

\* The host renders the table again with other rows.
rerenderWithData(rows) ==
  /\ hook = "Table"
  /\ ~turnPending
  /\ data' = rows
  /\ processedData' \in processData(rows, searchValue, sortState, columns,
                                    disableInternalProcessing)
  /\ UNCHANGED <<hook, hasWindow, persistenceKey, getItemThrows,
                 setItemThrows, searchValue, disableInternalProcessing,
                 paginationMode, itemsPerPage, controlledPage,
                 enableRowSelection, paginationVars, chipVars, mergeVars,
                 localStorage, sortVars, selVars, cellVars, storageCalls,
                 thrown, internalPage>>

InitNavigate ==
  /\ MountedIn({"Table"}, {TRUE}, {emptyStorage}, {FALSE})
  /\ persistenceKey = {}
  /\ controlledSelection = {} /\ ~onSelectionChange
  /\ TableRendered(NamedDataSets, {<<>>}, {FALSE}, {"auto", "manual", "off"},
                   {1, 2})

NextNavigate ==
  \/ \E newPage \in 1..MaxRows : handlePageChange(newPage)
  \/ \E search \in {<<>>, <<"a">>, <<"z">>} : rerender(search)
  \/ \E rows \in NamedDataSets : rerenderWithData(rows)

SpecNavigate == InitNavigate /\ [][NextNavigate]_vars

----------------------------------------------------------------------------
(* Table: selecting rows page by page *)

\* Three rows without ids.
rowsWithoutIds ==
  <<[name |-> Str(<<"A", "b">>), age |-> Num(1)],
    [name |-> Str(<<"b">>), age |-> Num(2)],
    [name |-> Str(<<"b">>), age |-> Num(1)]>>

\* enableRowSelection: true, or a function that accepts some of the rows.
RowSelectionProps ==
  {Bool(TRUE)}
    \cup {RowFilter(rows) : rows \in SUBSET {data[i] : i \in 1..Len(data)}}

InitSelect ==
  /\ MountedIn({"Table"}, {TRUE}, {emptyStorage}, {FALSE})
  /\ persistenceKey = {}
  /\ controlledSelection = {} /\ ~onSelectionChange
  /\ TableRenderedWith({rowsWithoutIds, withIds(rowsWithoutIds)}, {<<>>},
                       {FALSE}, {"auto"}, {2, 20}, RowSelectionProps)

NextSelect ==
  \/ \E i \in 1..Len(paginatedData) : tableShown /\ ClickRowCheckbox(i)
  \/ tableShown /\ ClickHeaderCheckbox
  \/ \E newPage \in 1..MaxRows : handlePageChange(newPage)
  \/ Render

SpecSelect == InitSelect /\ [][NextSelect]_vars

----------------------------------------------------------------------------
(* Pagination *)

maxVisiblePages == 5

\* The number that stands for an ellipsis among the page numbers.
ellipsis == -1

isValidPagination == totalPages > 1 /\ page >= 1 /\ page <= totalPages

isFirstPage == page = 1
isLastPage == page = totalPages

pageNumbersEveryPage == [i \in 1..totalPages |-> i]

pageNumbersBothEllipses ==
  IF totalPages <= maxVisiblePages
  THEN [i \in 1..totalPages |-> i]
  ELSE <<1, ellipsis, page - 1, page, page + 1, ellipsis, totalPages>>

\* The pageNumbers memo.
pageNumbers ==
  IF totalPages <= maxVisiblePages
  THEN [i \in 1..totalPages |-> i]
  ELSE IF page <= 3
  THEN <<1, 2, 3>>
         \o (IF page = 3 /\ page + 1 <= totalPages - 2
             THEN <<page + 1>> ELSE <<>>)
         \o (IF totalPages > 4 THEN <<ellipsis>> ELSE <<>>)
         \o <<totalPages>>
  ELSE IF page >= totalPages - 2
  THEN <<1>>
         \o (IF totalPages > 4 THEN <<ellipsis>> ELSE <<>>)
         \o [i \in 1..3 |-> totalPages - 3 + i]
  ELSE <<1, ellipsis>>
         \o [i \in 1..3 |-> page - 2 + i]
         \o <<ellipsis, totalPages>>

\* The host stores the page it is told and renders the control with it.
onPageChange(pageNumber) ==
  /\ page' = pageNumber
  /\ UNCHANGED <<hook, hasWindow, persistenceKey, getItemThrows,
                 setItemThrows, tableProps, totalPages, showPageNumbers,
                 chipVars, mergeVars, localStorage, sortVars, selVars,
                 cellVars, storageCalls, thrown, tableVars>>

\* onClick of the previous button, which is disabled on the first page.
handlePreviousPage ==
  /\ hook = "Pagination"
  /\ isValidPagination
  /\ ~isFirstPage
  /\ IF page > 1 THEN onPageChange(page - 1) ELSE UNCHANGED vars

\* onClick of the next button, which is disabled on the last page.
handleNextPage ==
  /\ hook = "Pagination"
  /\ isValidPagination
  /\ ~isLastPage
  /\ IF page < totalPages THEN onPageChange(page + 1) ELSE UNCHANGED vars

\* onClick of the button of the index-th page number.
handlePageClick(index) ==
  /\ hook = "Pagination"
  /\ isValidPagination
  /\ showPageNumbers
  /\ index \in 1..Len(pageNumbers)
  /\ pageNumbers[index] # ellipsis
  /\ onPageChange(pageNumbers[index])

InitPagination ==
  /\ MountedIn({"Pagination"}, {TRUE}, {emptyStorage}, {FALSE})
  /\ persistenceKey = {}
  /\ NoTable
  /\ totalPages \in 0..MaxPages
  /\ page \in {0, 1, totalPages + 1}
  /\ showPageNumbers \in BOOLEAN

NextPagination ==
  \/ handlePreviousPage
  \/ handleNextPage
  \/ \E index \in 1..(maxVisiblePages + 2) : handlePageClick(index)

SpecPagination == InitPagination /\ [][NextPagination]_vars

----------------------------------------------------------------------------
(* ChipDisplay *)

\* items.length === 0: the component renders an empty container.
noItems == Len(items) = 0

visibleItemsAlwaysSliced == slice(items, 0, maxVisibleItems)

visibleItems ==
  IF noItems THEN <<>>
  ELSE IF isExpanded THEN items
  ELSE slice(items, 0, maxVisibleItems)

\* Math.max(0, items.length - maxVisibleItems)
hiddenItemsCount ==
  IF Len(items) - maxVisibleItems > 0 THEN Len(items) - maxVisibleItems
  ELSE 0

\* The "+N more" button is rendered.
moreButtonShown == ~noItems /\ ~isExpanded /\ hiddenItemsCount > 0

\* The "Show less" button is rendered.
lessButtonShown == ~noItems /\ isExpanded /\ hiddenItemsCount > 0

setIsExpanded(value) ==
  /\ isExpanded' = value
  /\ UNCHANGED <<hook, hasWindow, persistenceKey, getItemThrows,
                 setItemThrows, tableProps, paginationVars, items,
                 maxVisibleItems, mergeVars, localStorage, sortVars, selVars,
                 cellVars, storageCalls, thrown, tableVars>>

\* onClick of the "+N more" button.
ClickMore ==
  /\ hook = "ChipDisplay"
  /\ moreButtonShown
  /\ setIsExpanded(TRUE)

\* onClick of the "Show less" button.
ClickShowLess ==
  /\ hook = "ChipDisplay"
  /\ lessButtonShown
  /\ setIsExpanded(FALSE)

\* The first render, with 0 .. MaxItems items and a limit of 0 .. MaxItems.
InitChips ==
  /\ MountedIn({"ChipDisplay"}, {TRUE}, {emptyStorage}, {FALSE})
  /\ persistenceKey = {}
  /\ NoTable
  /\ items \in {[i \in 1..n |-> i] : n \in 0..MaxItems}
  /\ maxVisibleItems \in 0..MaxItems
  /\ isExpanded = FALSE

NextChips == ClickMore \/ ClickShowLess

SpecChips == InitChips /\ [][NextChips]_vars

----------------------------------------------------------------------------
(* mergeDeep *)

\* An object with the properties given, as a function from their names.
Obj(props) == [type |-> "object", props |-> props]

\* Boolean(item && typeof item === "object" && !Array.isArray(item))
isObject(item) == item.type = "object"

\* The objects whose properties, named by names, are left out or hold one
\* of values.
ObjectsOver(names, values) ==
  UNION {{Obj(props) : props \in [present -> values]} :
           present \in SUBSET names}

\* Targets hold 1 and sources 2, at the top or one level down.
Targets ==
  ObjectsOver({"a", "b"}, {Num(1)} \cup ObjectsOver({"c", "d"}, {Num(1)}))

Sources ==
  {Undefined}
    \cup ObjectsOver({"a", "b"},
                     {Num(2)} \cup ObjectsOver({"c", "d"}, {Num(2)}))

RECURSIVE mergeDeep(_, _)
mergeDeep(target, source) ==
  IF source.type = "undefined" THEN target
  ELSE IF isObject(target) /\ isObject(source)
  THEN Obj([key \in DOMAIN target.props \cup DOMAIN source.props |->
              IF key \notin DOMAIN source.props THEN target.props[key]
              ELSE IF isObject(source.props[key])
              THEN (IF key \notin DOMAIN target.props
                    THEN source.props[key]
                    ELSE IF isObject(target.props[key])
                    THEN mergeDeep(target.props[key], source.props[key])
                    ELSE target.props[key])
              ELSE source.props[key]])
  ELSE target

\* A call of mergeDeep(target, source).
callMergeDeep(target, source) ==
  /\ hook = "mergeDeep"
  /\ mergeTarget' = target
  /\ mergeSource' = source
  /\ mergeOutput' = mergeDeep(target, source)
  /\ UNCHANGED <<hook, hasWindow, persistenceKey, getItemThrows,
                 setItemThrows, tableProps, paginationVars, chipVars,
                 localStorage, sortVars, selVars, cellVars, storageCalls,
                 thrown, tableVars>>

InitMerge ==
  /\ MountedIn({"mergeDeep"}, {TRUE}, {emptyStorage}, {FALSE})
  /\ persistenceKey = {}
  /\ NoTable
  /\ NoMergeDeep

NextMerge ==
  \E target \in Targets, source \in Sources : callMergeDeep(target, source)

SpecMerge == InitMerge /\ [][NextMerge]_vars

----------------------------------------------------------------------------
(* Sort controller, uncontrolled *)

\* C1: in uncontrolled mode a handleSort(k) call made in a turn of its own,
\* k a field key, leaves {k, asc} when it starts from the default state,
\* {k, desc} when it starts from {k, asc}, {k, asc} again when it starts from
\* {k, desc}, and {k, asc} whenever k differs from the current key.
C1_SortToggleCycle ==
  [][(Render /\ hook = "useTableSort" /\ ~isControlledSort
        /\ Len(sortCalls) = 1 /\ sortCalls[1] \in FieldKeys)
     => LET k == sortCalls[1]
            asc == [key |-> k, direction |-> "asc"]
            desc == [key |-> k, direction |-> "desc"]
        IN /\ sortState = defaultSortState => sortState' = asc
           /\ sortState = asc => sortState' = desc
           /\ sortState = desc => sortState' = asc
           /\ sortState.key # k => sortState' = asc]_vars

\* The third call of the cycle is under way: the state is {name, desc} and
\* handleSort(name) has been called.
C1_Witness ==
  /\ hook = "useTableSort" /\ ~isControlledSort
  /\ internalSortState = [key |-> "name", direction |-> "desc"]
  /\ sortCalls = <<"name">>

\* C2: change requests made to one controller within one turn are applied
\* each to the result of the one before: two handleSort(k) calls on an
\* unsorted table leave {k, desc}, and toggleRow(a) then toggleRow(b), a # b,
\* leave both a and b flipped.
C2_NoLostUpdate ==
  [][Render
     => /\ \A k \in FieldKeys :
             (hook = "useTableSort" /\ ~isControlledSort
                /\ internalSortState.key = NULL /\ sortCalls = <<k, k>>)
             => sortState' = [key |-> k, direction |-> "desc"]
        /\ \A a, b \in Ids :
             (hook = "useRowSelection" /\ ~isControlledSelection /\ a # b
                /\ selQueue
                     = <<Literal(toggleRowSelection(internalSelection, a)),
                         Literal(toggleRowSelection(internalSelection, b))>>)
             => /\ Truthy(internalSelection', a)
                     # Truthy(internalSelection, a)
                /\ Truthy(internalSelection', b)
                     # Truthy(internalSelection, b)]_vars

----------------------------------------------------------------------------
(* The state cell *)

\* C3: the updates a turn hands to the setter are resolved in order, each
\* function of the previous state on the value the update before it produced
\* and each literal as itself; the state after the render and the text left
\* in the store are those of the last one.
C3_UpdatesResolveInOrder ==
  [][(Render /\ hook = "useInternalState")
     => LET n == Len(cellQueue)
            resolved[i \in 0..n] ==
              IF i = 0 THEN cellState
              ELSE IF cellQueue[i].function # {}
                   THEN Get(cellQueue[i].function)[resolved[i - 1]]
                   ELSE Get(cellQueue[i].literal)
        IN /\ cellState' = resolved[n]
           /\ cellStorageKey # {}
                => localStorage'[Get(cellStorageKey)]
                     = {<<ToString(resolved[n])>>}]_vars

\* Two functions of the previous state are queued in one turn, the second
\* of which gives another result on the value the first produces than on the
\* value the turn started from.
C3_Witness ==
  /\ hook = "useInternalState" /\ persistenceKey # {}
  /\ cellState = 1
  /\ cellQueue = <<Function(increment), Function(double)>>

----------------------------------------------------------------------------
(* Selection controller *)

\* The map the last change request handed on: to the callback in controlled
\* mode, to the internal setter otherwise.
RequestedSelection ==
  IF isControlledSelection THEN Last(selCb)
  ELSE Get(Last(selQueue).literal)

Range(s) == {s[i] : i \in 1..Len(s)}

\* C4: toggleRow(id) produces a map whose entry at id is present and is the
\* negation of the truthiness it had (a missing entry counting as false) and
\* whose other entries are those of the map before, no more and no fewer.
C4_ToggleRowFlipsOne ==
  [][\A id \in Ids :
       (hook = "useRowSelection" /\ toggleRow(id))
       => LET old == selectedRowIds
              new == RequestedSelection'
          IN /\ DOMAIN new = DOMAIN old \cup {id}
             /\ new[id] = (~(id \in DOMAIN old /\ old[id]))
             /\ \A p \in DOMAIN old \ {id} : new[p] = old[p]]_vars

\* A second toggle of a selected row is under way: the explicit false has
\* been requested.
C4_Witness ==
  /\ hook = "useRowSelection" /\ ~isControlledSelection
  /\ internalSelection = [p \in {"1"} |-> TRUE]
  /\ selQueue = <<Literal([p \in {"1"} |-> FALSE])>>

\* C5: toggleAllRows(ids, v) produces a map in which every id of ids has one
\* target and every other entry is that of the map before; the target is v
\* when v is given, else false when ids is non-empty and all of it is
\* selected, else true; with v given, a second application changes nothing.
C5_ToggleAllSetsTarget ==
  [][\A ids \in IdLists, value \in {{}, {TRUE}, {FALSE}} :
       (hook = "useRowSelection" /\ toggleAllRows(ids, value))
       => LET old == selectedRowIds
              new == RequestedSelection'
              allSelected ==
                /\ ids # <<>>
                /\ \A id \in Range(ids) : id \in DOMAIN old /\ old[id]
              target == IF value = {TRUE} THEN TRUE
                        ELSE IF value = {FALSE} THEN FALSE
                        ELSE ~allSelected
          IN /\ DOMAIN new = DOMAIN old \cup Range(ids)
             /\ \A id \in Range(ids) : new[id] = target
             /\ \A p \in DOMAIN old \ Range(ids) : new[p] = old[p]
             /\ value # {}
                  => toggleAllRowsSelection(new, ids, value) = new]_vars

\* An explicit false has been requested for rows that are not all selected.
C5_Witness ==
  /\ hook = "useRowSelection" /\ ~isControlledSelection
  /\ internalSelection = [p \in {"1"} |-> TRUE]
  /\ selQueue = <<Literal([p \in Ids |-> FALSE])>>

\* C6: over every selection a controller exposes and every id list,
\* isAllSelected holds exactly when the list is non-empty and each of its
\* ids is truthy, isSomeSelected exactly when the number of truthy ids in
\* the list is above 0 and below its length; both are false for the empty
\* list and they never hold together.
C6_AggregateQueries ==
  \A ids \in IdLists :
    LET sel == selectedRowIds
        truthy == {i \in 1..Len(ids) : ids[i] \in DOMAIN sel /\ sel[ids[i]]}
        all == isAllSelected(sel, ids)
        some == isSomeSelected(sel, ids)
    IN /\ all <=> (Len(ids) > 0 /\ Cardinality(truthy) = Len(ids))
       /\ some <=> (0 < Cardinality(truthy) /\ Cardinality(truthy) < Len(ids))
       /\ ids = <<>> => ~all /\ ~some
       /\ ~(all /\ some)

\* One of the two rows is selected: some but not all of <<1, 2>>.
C6_Witness ==
  /\ hook = "useRowSelection"
  /\ isSomeSelected(selectedRowIds, <<"1", "2">>)
  /\ ~isAllSelected(selectedRowIds, <<"1", "2">>)
  /\ selectedRowIds = [p \in Ids |-> p = "1"]

----------------------------------------------------------------------------
(* Controlled and uncontrolled mode *)

SortSupplied == controlledSortState # {} /\ onSortChange

SelectionSupplied == controlledSelection # {} /\ onSelectionChange

\* The state a sort request for k asks for, seen from a given sort state.
Requested(from, k) ==
  [key |-> k,
   direction |-> IF from.key = k /\ from.direction = "asc"
                 THEN "desc" ELSE "asc"]

C8_TableSelectionCallback ==
  [][/\ \A i \in 1..Len(paginatedData) :
          (/\ ClickRowCheckbox(i)
           /\ onSelectionChange /\ controlledSelection = {}
           /\ ~Truthy(selectedRowIds, getRowId(paginatedData[i])))
          => /\ Len(selCb') = Len(selCb) + 1
             /\ Truthy(Last(selCb'), getRowId(paginatedData[i]))
     /\ (/\ ClickHeaderCheckbox
         /\ onSelectionChange /\ controlledSelection = {}
         /\ ~isAllSelected(selectedRowIds, visibleRowIds))
        => /\ Len(selCb') = Len(selCb) + 1
           /\ \A id \in Range(visibleRowIds) : Truthy(Last(selCb'), id)]_vars

\* C9: handleSort with a reserved key, in either mode, queues no update and
\* makes no callback call and leaves the sort state and the store as they
\* are; so does the render after a turn of such calls only.
C9_ReservedKeysIgnored ==
  [][/\ \A k \in ReservedKeys :
          (hook = "useTableSort" /\ handleSort(k))
          => /\ UNCHANGED <<sortQueue, sortCb, internalSortState,
                            controlledSortState, localStorage>>
             /\ sortState' = sortState
     /\ (/\ hook = "useTableSort" /\ Render
         /\ \A i \in 1..Len(sortCalls) : sortCalls[i] \in ReservedKeys)
        => /\ sortQueue = <<>> /\ sortCb = <<>>
           /\ UNCHANGED <<internalSortState, controlledSortState,
                          localStorage>>
           /\ sortState' = sortState]_vars

\* A sorted, persisted controller has been asked to sort by 'select'.
C9_Witness ==
  /\ hook = "useTableSort" /\ ~isControlledSort /\ persistenceKey # {}
  /\ internalSortState = [key |-> "name", direction |-> "asc"]
  /\ sortCalls = <<"select">>
  /\ sortQueue = <<>>

----------------------------------------------------------------------------
(* Persistence *)

\* C10: with a persistence key and in uncontrolled mode, the render that
\* writes a sort state (a selection map) leaves a store from which a fresh
\* controller with the same key starts in exactly that state, and a remount
\* over a store that holds a record starts in the state that was left.
C10_PersistenceRoundTrip ==
  [][/\ (/\ hook = "useTableSort" /\ persistenceKey # {}
         /\ ~SortSupplied)
        => /\ (Render /\ sortQueue # <<>>)
              => getInitialState("sort", defaultSortState, sortStorageKey,
                                 localStorage') = internalSortState'
           /\ (Remount /\ localStorage[Get(sortStorageKey)] # {})
              => internalSortState' = internalSortState
     /\ (/\ hook = "useRowSelection" /\ persistenceKey # {}
         /\ ~SelectionSupplied)
        => /\ (Render /\ selQueue # <<>>)
              => getInitialState("selection", <<>>, selectionStorageKey,
                                 localStorage') = internalSelection'
           /\ (Remount /\ localStorage[Get(selectionStorageKey)] # {})
              => internalSelection' = internalSelection]_vars

\* A descending sort has been written under K-sort and is the state of the
\* controller over that store.
C10_Witness ==
  /\ hook = "useTableSort" /\ persistenceKey = {"K"} /\ ~SortSupplied
  /\ localStorage["K-sort"] =
       {JSON_stringify("sort", [key |-> "age", direction |-> "desc"])}
  /\ internalSortState = [key |-> "age", direction |-> "desc"]
  /\ sortCalls = <<>>

----------------------------------------------------------------------------
(* Storage that holds bad records or fails *)

\* Stored texts that JSON.parse rejects.
NotJSON == {<<>>, <<"invalid-json">>, <<"{">>}

\* Nothing usable can be read under key k.
Unreadable(k) ==
  \/ getItemThrows
  \/ localStorage[k] = {}
  \/ Get(localStorage[k]) \in NotJSON

\* C11: a mount with a persistence key lets no exception out, and when the
\* text under the key is not JSON, or there is none, or the read throws, the
\* state cell starts with the caller's default.
C11_InitFallsBackToDefault ==
  [][(Remount /\ persistenceKey # {})
     => /\ thrown' = thrown
        /\ (hook = "useInternalState" /\ Unreadable("K")) => cellState' = 0
        /\ (hook = "useTableSort" /\ Unreadable("K-sort"))
             => internalSortState' = defaultSortState]_vars

\* A sort controller has been mounted over text that is not JSON.
C11_Witness ==
  /\ hook = "useTableSort" /\ persistenceKey # {} /\ ~getItemThrows
  /\ localStorage["K-sort"] = {<<"invalid-json">>}
  /\ <<"getItem", "K-sort">> \in storageCalls
  /\ internalSortState = defaultSortState
  /\ ~thrown

\* Records under K-sort that are JSON but not a serialized sort state.
CorruptSortRecords ==
  {<<"null">>, <<"1">>, <<"{", "}">>,
   <<"{", Quote("key"), ":", Quote("name"), "}">>}

\* C12: a sort controller mounted over a record that is JSON but not a sort
\* state starts with the default sort state, and no handleSort call lets an
\* exception out.
C12_CorruptRecordIsMissing ==
  [][/\ (/\ Remount /\ hook = "useTableSort"
         /\ persistenceKey # {} /\ ~getItemThrows
         /\ localStorage["K-sort"] # {}
         /\ Get(localStorage["K-sort"]) \in CorruptSortRecords)
        => internalSortState' = defaultSortState
     /\ \A k \in Keys :
          (hook = "useTableSort" /\ handleSort(k)) => ~thrown']_vars

\* C13: a render whose writes throw lets no exception out, leaves the store
\* as it is and still attempts the write, and the state after it is the
\* result of the queued updates applied in order; a later render whose write
\* succeeds leaves the text of the state it produced.
C13_WriteFailureKeepsNewValue ==
  [][(Render /\ persistenceKey # {})
     => LET n == Len(cellQueue)
            resolved[i \in 0..n] ==
              IF i = 0 THEN cellState
              ELSE IF cellQueue[i].function # {}
                   THEN Get(cellQueue[i].function)[resolved[i - 1]]
                   ELSE Get(cellQueue[i].literal)
        IN /\ thrown' = thrown
           /\ setItemThrows => localStorage' = localStorage
           /\ (hook = "useInternalState" /\ cellQueue # <<>>)
                => /\ cellState' = resolved[n]
                   /\ <<"setItem", "K">> \in storageCalls'
                   /\ ~setItemThrows
                        => localStorage'["K"] = {<<ToString(resolved[n])>>}
           /\ (hook = "useTableSort" /\ sortQueue # <<>>)
                => /\ internalSortState' = Get(Last(sortQueue).literal)
                   /\ <<"setItem", "K-sort">> \in storageCalls'
                   /\ ~setItemThrows
                        => localStorage'["K-sort"] =
                             {JSON_stringify("sort", internalSortState')}]_vars

\* A write has failed: the cell holds 2 and nothing is stored under K.
C13_Witness ==
  /\ hook = "useInternalState" /\ persistenceKey # {} /\ setItemThrows
  /\ cellState = 2 /\ cellQueue = <<>>
  /\ localStorage["K"] = {}
  /\ <<"setItem", "K">> \in storageCalls

\* C14: without a window a state cell created with a persistence key starts
\* at the default and has let no exception out, and every call of its
\* setter queues its update, so that the next render shows the new value.
C14_NoWindowIsInMemory ==
  (hook = "useInternalState" /\ ~hasWindow /\ persistenceKey # {})
  => /\ ~thrown
     /\ storageCalls = {}
     /\ TurnOpen =>
          \A update \in CellUpdates :
            ENABLED (setCell(update)
                       /\ cellQueue' = Append(cellQueue, update))

\* C15: in uncontrolled mode with a persistence key, once a controller has
\* written its record, the text under its key parses to the state the
\* controller holds.
C15_StoreAgreesWithState ==
  /\ (/\ hook = "useTableSort" /\ persistenceKey # {} /\ ~SortSupplied
      /\ <<"setItem", "K-sort">> \in storageCalls)
     => /\ localStorage["K-sort"] # {}
        /\ JSON_parse("sort", Get(localStorage["K-sort"]))
             = [ok |-> TRUE, value |-> internalSortState]
  /\ (/\ hook = "useRowSelection" /\ persistenceKey # {}
      /\ ~SelectionSupplied
      /\ <<"setItem", "K-selection">> \in storageCalls)
     => /\ localStorage["K-selection"] # {}
        /\ JSON_parse("selection", Get(localStorage["K-selection"]))
             = [ok |-> TRUE, value |-> internalSelection]

\* A selection controller has written a map with one row selected and one
\* deselected.
C15_Witness ==
  /\ hook = "useRowSelection" /\ persistenceKey # {} /\ ~SelectionSupplied
  /\ <<"setItem", "K-selection">> \in storageCalls
  /\ internalSelection = [p \in Ids |-> p = "1"]
  /\ selQueue = <<>>

\* The keys a table with persistence key K may use.
TableKeys ==
  IF persistenceKey # {}
  THEN {Get(persistenceKey) \o "-sort", Get(persistenceKey) \o "-selection"}
  ELSE {}

\* C16: every getItem and setItem of a table is on K-sort or K-selection,
\* and there is none without a persistence key; a render with no selection
\* update queued leaves the record under K-selection as it was, and one with
\* no sort update queued leaves the record under K-sort; a change of page
\* calls and changes nothing in the store, and a table mounted again is on
\* page 1.
C16_TableKeysAreNamespaced ==
  /\ [](hook = "Table" => \A call \in storageCalls : call[2] \in TableKeys)
  /\ [][hook = "Table"
          => /\ selQueue = <<>>
                  => localStorage'["K-selection"] = localStorage["K-selection"]
             /\ sortQueue = <<>>
                  => localStorage'["K-sort"] = localStorage["K-sort"]
             /\ localStorage'["K"] = localStorage["K"]
             /\ internalPage' # internalPage
                  => /\ localStorage' = localStorage
                     /\ storageCalls' = storageCalls
             /\ Remount => internalPage' = 1]_vars

\* A table with a persistence key is on page 2 after both its sort state
\* and its selection have been written.
C16_Witness ==
  /\ hook = "Table" /\ persistenceKey # {}
  /\ internalPage = 2
  /\ localStorage["K-sort"] # {} /\ localStorage["K-selection"] # {}
  /\ {<<"setItem", "K-sort">>, <<"setItem", "K-selection">>}
       \subseteq storageCalls

\* A column other than the select and actions columns holds, coerced to a
\* string (null and undefined to the empty one) and lower-cased, the
\* lower-cased search value.
Matches(row, search) ==
  \E accessorKey \in Range(columns) \ {"select", "actions"} :
    LET value == Cell(row, accessorKey)
        text == IF value.type \in {"null", "undefined"} THEN <<>>
                ELSE String(value)
    IN includes(toLowerCase(text), toLowerCase(search))

\* Two texts of the same letters, capital or small.
DifferOnlyInCase(a, b) ==
  /\ Len(a) = Len(b)
  /\ \A i \in 1..Len(a) :
       \/ a[i] = b[i]
       \/ {a[i], b[i]} \in {{"a", "A"}, {"b", "B"}}

\* C17: with processing enabled and a search value, the processed rows are
\* the rows of the data that match the search value, in the order of the
\* data when the sort key is null; and a search value that differs from it
\* only in letter case gives the same rows.
C17_SearchKeepsMatchingRows ==
  (/\ hook = "Table" /\ ~disableInternalProcessing
   /\ searchValue # <<>> /\ ~turnPending)
  => LET kept == SelectSeq(data, LAMBDA row : Matches(row, searchValue))
     IN /\ Range(processedData) = Range(kept)
        /\ Len(processedData) = Len(kept)
        /\ Prop(sortState, "key") = {NULL} => processedData = kept
        /\ \A other \in SearchValues :
             DifferOnlyInCase(other, searchValue)
               => processData(data, other, sortState, columns, FALSE)
                    = processData(data, searchValue, sortState, columns,
                                  FALSE)

\* A search in capitals has kept the first and the third of three rows, of
\* which the second has null for a name.
C17_Witness ==
  /\ hook = "Table" /\ ~disableInternalProcessing /\ ~turnPending
  /\ searchValue = <<"A", "B">>
  /\ Len(data) = 3
  /\ Cell(data[2], "name") = Null
  /\ Prop(sortState, "key") = {NULL}
  /\ processedData = <<data[1], data[3]>>

\* C18: with disableInternalProcessing the processed rows are the data,
\* the same rows in the same order, under the search value and sort state
\* the table has and under every other search value and sort state.
C18_DisabledProcessingIsIdentity ==
  (hook = "Table" /\ disableInternalProcessing)
  => /\ ~turnPending => processedData = data
     /\ \A search \in SearchValues, key \in FieldKeys \cup {NULL},
           direction \in Directions :
          processData(data, search, [key |-> key, direction |-> direction],
                      columns, TRUE) = {data}

\* Processing is disabled; the table is sorted by name, descending, its
\* first row has the smaller name, and the search value matches no row.
C18_Witness ==
  /\ hook = "Table" /\ disableInternalProcessing /\ ~turnPending
  /\ sortState = [key |-> "name", direction |-> "desc"]
  /\ searchValue = <<"n">>
  /\ Len(data) = 3
  /\ Cell(data[1], "name") = Str(<<"A", "b">>)
  /\ Cell(data[2], "name") = Str(<<"b">>)
  /\ \A i \in 1..Len(data) : ~Matches(data[i], searchValue)
  /\ processedData = data

\* The row has null or undefined under the accessor key.
IsNullish(row, accessorKey) ==
  Cell(row, accessorKey).type \in {"null", "undefined"}

\* C20: when the table is sorted by a column, ascending, no row with null
\* or undefined under it comes before a row with a value; descending, no
\* row with a value comes before a row with null or undefined.
C20_NullsLastAscFirstDesc ==
  (/\ hook = "Table" /\ ~disableInternalProcessing /\ ~turnPending
   /\ Prop(sortState, "key") \subseteq FieldKeys)
  => \A i \in 1..Len(processedData), j \in 1..Len(processedData) :
       LET key == Get(Prop(sortState, "key"))
           nullFirst == /\ IsNullish(processedData[i], key)
                        /\ ~IsNullish(processedData[j], key)
       IN (i < j /\ sortState.direction = "asc" => ~nullFirst)
          /\ (i > j /\ sortState.direction = "desc" => ~nullFirst)

\* C19: with disableInternalProcessing the rows handed to rendering are
\* all the rows of the data, whatever paginationMode, itemsPerPage and the
\* internal page are.
C19_DisabledProcessingDisablesPaging ==
  (hook = "Table" /\ disableInternalProcessing /\ ~turnPending)
  => paginatedData = data

\* The rows all hold a string, or all hold a number, under the accessor key.
Comparable(rows, accessorKey) ==
  \E type \in {"string", "number"} :
    \A i \in 1..Len(rows) : Cell(rows[i], accessorKey).type = type

\* The place of a row in the data.
Place(row) == CHOOSE p \in 1..Len(data) : data[p] = row

C22_VisiblePages ==
  (hook = "Pagination" /\ page \in 1..totalPages)
  => pageNumbers =
       IF totalPages <= 5 THEN [i \in 1..totalPages |-> i]
       ELSE IF page <= 3
       THEN <<1, 2, 3>> \o (IF page = 3 THEN <<4>> ELSE <<>>)
              \o <<-1, totalPages>>
       ELSE IF page >= totalPages - 2
       THEN <<1, -1, totalPages - 2, totalPages - 1, totalPages>>
       ELSE <<1, -1, page - 1, page, page + 1, -1, totalPages>>

\* Page 5 of 10 with its page numbers shown.
C22_Witness ==
  /\ hook = "Pagination" /\ showPageNumbers
  /\ page = 5 /\ totalPages = 10
  /\ pageNumbers = <<1, -1, 4, 5, 6, -1, 10>>

\* C30: for a page within 1 .. totalPages, the page numbers listed grow
\* strictly and lie in 1 .. totalPages; 1, the page and the last page are
\* among them; no ellipsis is first, last or next to another; and the
\* numbers on the two sides of an ellipsis differ by at least 2.
C30_PageWindowWellFormed ==
  (hook = "Pagination" /\ page \in 1..totalPages)
  => LET n == Len(pageNumbers)
         listed == {i \in 1..n : pageNumbers[i] # -1}
     IN /\ \A i \in listed, j \in listed :
             i < j => pageNumbers[i] < pageNumbers[j]
        /\ \A i \in listed : pageNumbers[i] \in 1..totalPages
        /\ {1, page, totalPages} \subseteq {pageNumbers[i] : i \in listed}
        /\ \A i \in (1..n) \ listed :
             /\ i > 1 /\ i < n
             /\ i - 1 \in listed /\ i + 1 \in listed
             /\ pageNumbers[i + 1] - pageNumbers[i - 1] >= 2

\* Page 3 of 6: the one ellipsis hides page 5 alone.
C30_Witness ==
  /\ hook = "Pagination" /\ showPageNumbers
  /\ page = 3 /\ totalPages = 6
  /\ pageNumbers = <<1, 2, 3, 4, -1, 6>>

\* C23: in auto mode the page the rows are sliced by lies within
\* 1 .. totalDataPages, and some row is displayed whenever some row is
\* processed.
C23_PageWithinRange ==
  (hook = "Table" /\ paginationMode = "auto")
  => /\ isPaginationEnabled => currentPage \in 1..totalDataPages
     /\ processedData # <<>> => paginatedData # <<>>

\* C24: in auto mode pagination is enabled exactly when there are more
\* processed rows than itemsPerPage, and a page holds at most itemsPerPage
\* rows; at or below itemsPerPage rows all processed rows are displayed and
\* there is no pagination control, whatever internalPage is; in mode off
\* likewise for any number of rows; and a control on the screen has more
\* than one page.
C24_PaginationOnlyAboveThreshold ==
  hook = "Table"
  => /\ paginationMode = "auto"
          => /\ isPaginationEnabled <=> Len(processedData) > itemsPerPage
             /\ isPaginationEnabled => Len(paginatedData) <= itemsPerPage
             /\ Len(processedData) <= itemsPerPage
                  => paginatedData = processedData /\ ~paginationRendered
     /\ paginationMode = "off"
          => paginatedData = processedData /\ ~paginationRendered
     /\ paginationRendered => totalPagesOfTable > 1

\* The page counter is at 3 and the one processed row, no more than
\* itemsPerPage, is displayed.
C24_Witness ==
  /\ hook = "Table" /\ paginationMode = "auto"
  /\ internalPage = 3 /\ itemsPerPage = 1
  /\ Len(processedData) = 1
  /\ paginatedData = processedData
  /\ ~paginationRendered

\* The rows the table displays on page p when it pages them itself.
PageRows(p) ==
  slice(processedData, (p - 1) * itemsPerPage, p * itemsPerPage)

\* The rows of pages 1 .. p, one page after the other.
RECURSIVE PagesUpTo(_)
PagesUpTo(p) == IF p = 0 THEN <<>> ELSE PagesUpTo(p - 1) \o PageRows(p)

\* C28: when the table pages its rows in auto mode, the pages 1 ..
\* totalDataPages one after the other are the processed rows; every page
\* but the last holds itemsPerPage rows and the last holds between one and
\* itemsPerPage; no row is on two pages; and the rows displayed are those of
\* the current page.
C28_PagesPartitionRows ==
  (hook = "Table" /\ paginationMode = "auto" /\ isPaginationEnabled)
  => /\ PagesUpTo(totalDataPages) = processedData
     /\ \A p \in 1..totalDataPages :
          /\ Len(PageRows(p)) <= itemsPerPage
          /\ Len(PageRows(p)) >= 1
          /\ p < totalDataPages => Len(PageRows(p)) = itemsPerPage
     /\ \A p \in 1..totalDataPages, q \in 1..totalDataPages :
          p # q => Range(PageRows(p)) \cap Range(PageRows(q)) = {}
     /\ currentPage \in 1..totalDataPages
          => paginatedData = PageRows(currentPage)

\* Three rows in pages of two, the second page displayed: it holds the
\* third row.
C28_Witness ==
  /\ hook = "Table" /\ paginationMode = "auto"
  /\ Len(processedData) = 3 /\ itemsPerPage = 2
  /\ internalPage = 2
  /\ paginatedData = <<processedData[3]>>

\* The checkbox of the row is checked in the map given.
Checked(selection, row) == Truthy(selection, getRowId(row))

\* C25: a click on the checkbox of one displayed row asks for a selection
\* in which every other displayed row is checked or not as it was, also
\* when the rows have no id.
C25_RowsWithoutIdAreDistinct ==
  [][\A i \in 1..Len(paginatedData) :
       (hook = "Table" /\ tableShown /\ ClickRowCheckbox(i))
       => \A j \in 1..Len(paginatedData) :
            j # i => Checked(RequestedSelection', paginatedData[j])
                       = Checked(selectedRowIds, paginatedData[j])]_vars

\* The rows all have an id.
AllHaveIds == \A i \in 1..Len(data) : "id" \in DOMAIN data[i]

\* The rows that are not on the displayed page.
OffPage == Range(data) \ Range(paginatedData)

C26_SourceOverridesTarget ==
  (hook = "mergeDeep" /\ mergeOutput # Undefined)
  => IF mergeSource = Undefined THEN mergeOutput = mergeTarget
     ELSE /\ DOMAIN mergeOutput.props
               = DOMAIN mergeTarget.props \cup DOMAIN mergeSource.props
          /\ \A k \in DOMAIN mergeSource.props :
               mergeOutput.props[k] =
                 IF /\ k \in DOMAIN mergeTarget.props
                    /\ isObject(mergeTarget.props[k])
                    /\ isObject(mergeSource.props[k])
                 THEN mergeDeep(mergeTarget.props[k], mergeSource.props[k])
                 ELSE mergeSource.props[k]
          /\ \A k \in DOMAIN mergeTarget.props \ DOMAIN mergeSource.props :
               mergeOutput.props[k] = mergeTarget.props[k]

\* C27: a collapsed ChipDisplay of n items with limit m shows the first
\* min(n, m) items, and a "+(n-m) more" button exactly when n > m; expanded
\* it shows all items and "Show less" but no "more" button; with n <= m
\* it shows no button; the "more" button expands it and "Show less"
\* collapses it.
C27_ChipDisplayStates ==
  /\ [](hook = "ChipDisplay"
        => LET n == Len(items)
               m == maxVisibleItems
           IN /\ ~isExpanded
                   => /\ visibleItems = SubSeq(items, 1, IF n < m THEN n ELSE m)
                      /\ moreButtonShown <=> n > m
                      /\ moreButtonShown => hiddenItemsCount = n - m
                      /\ ~lessButtonShown
              /\ isExpanded
                   => /\ visibleItems = items
                      /\ lessButtonShown /\ ~moreButtonShown
              /\ n <= m => ~moreButtonShown /\ ~lessButtonShown /\ ~isExpanded)
  /\ [][hook = "ChipDisplay"
        => /\ ClickMore => isExpanded' /\ visibleItems' = items
           /\ ClickShowLess => ~isExpanded' /\ moreButtonShown'
           /\ UNCHANGED <<items, maxVisibleItems>>]_vars

\* Two items with a limit of 0, expanded: both are shown, with "Show less".
C27_Witness ==
  /\ hook = "ChipDisplay"
  /\ Len(items) = 2 /\ maxVisibleItems = 0
  /\ isExpanded
  /\ visibleItems = items /\ lessButtonShown

====
